---------------------------- MODULE Spec2Model ----------------------------
(***************************************************************************)
(* LLMdig: a UDP DNS server answering TXT queries from an LLM backend.     *)
(*                                                                         *)
(* The module models the request pipeline of src/src/dns.rs together with  *)
(* the token-bucket rate limiter of src/src/utils/rate_limiter.rs, the     *)
(* cache of src/src/utils/cache.rs and the sanitizer of                    *)
(* src/src/utils/sanitizer.rs.                                             *)
(*                                                                         *)
(* Time.  The clock `now` counts ticks of 1/TicksPerSec seconds.           *)
(* Tokens.  The code keeps tokens as f64 and refills                       *)
(*     elapsed_secs * (requests_per_minute / 60).                          *)
(* The model keeps tokens exactly, in units of 1/TokScale of a token with  *)
(* TokScale = 60 * TicksPerSec, so that one tick refills exactly           *)
(* requests_per_minute units and one whole token is TokScale units.        *)
(* Rounding of f64 is not modelled.                                        *)
(***************************************************************************)
EXTENDS Integers, Sequences, FiniteSets, TLC

---------------------------------------------------------------------------
(* Bounds of the model *)

\* clock resolution: ticks per second
TicksPerSec == 2
\* number of concurrently running tasks (callers of allow_request, requests)
MaxProcs == 2
\* total number of allow_request calls in a behaviour of concurrent callers
MaxCalls == 3
\* calls a single sequential caller makes beyond draining its bucket twice
SeqSlack == 2
\* number of times the clock advances in a behaviour
MaxTicks == 2

---------------------------------------------------------------------------
(* Program constants *)

\* RateLimiter::new: cleanup_interval = Duration::from_secs(300)
CleanupIntervalSecs == 300
\* cleanup_if_needed: buckets idle for Duration::from_secs(600) are removed
BucketIdleSecs == 600

Sec(n) == n * TicksPerSec
TokScale == 60 * TicksPerSec

Min(a, b) == IF a <= b THEN a ELSE b

Procs == 1 .. MaxProcs
Addrs == {"a1", "a2"}
\* the src of a task that is not in a call
NoAddr == "none"
\* no function is being driven on its own, and nothing was returned
NoFn == [fn |-> "none"]
NoOut == [ok |-> FALSE, fn |-> "none"]

\* (requests_per_minute, burst_size) pairs the limiter is constructed with;
\* validate_rate_limit_config rejects 0 for either.
Configs == {<<60, 1>>, <<60, 2>>, <<30, 1>>, <<120, 2>>}

\* a valid configuration whose burst exceeds what ten idle minutes refill
\* (burst_size > requests_per_minute is a warning of the validator, not an
\* error)
WideConfigs == {<<1, 11>>}

\* how far one clock step may advance the clock
TickSteps == {1, Sec(1), Sec(CleanupIntervalSecs), Sec(BucketIdleSecs)}

VARIABLES
    now,          \* Instant::now(), in ticks
    nticks,       \* number of clock steps taken
    rpm,          \* config.rate_limit.requests_per_minute
    burst,        \* config.rate_limit.burst_size
    enabled,      \* config.rate_limit.enabled
    buckets,      \* RateLimiter.buckets: address -> TokenBucket or NoBucket
    last_cleanup, \* RateLimiter.last_cleanup
    lcLock,       \* holder of the last_cleanup write lock, 0 when free
    pc,           \* position of each task
    src,          \* request.src(): the client address of each task
    log,          \* per address, the completed allow_request calls in order
    req,          \* the decoded query each task handles
    cache,        \* DnsHandler.cache: question -> (response, Instant)
    reply,        \* the message each task handed to send_response
    result,       \* what handle_request returned: "none", "Ok" or "Err"
    backend,      \* the backend call of each task: none, pending, ok, err
    entries,      \* Cache.entries: key -> CacheEntry or NoEntry
    max_size,     \* Cache.max_size
    cache_cleanup, \* Cache.last_cleanup
    nops,         \* number of calls made on the Cache
    cres,         \* the last call made on the Cache and what it returned
    lastSet,      \* per key, the value, time and TTL of its last set
    sent,         \* the datagrams transmitted on the server's socket
    listening,    \* the listener is in its loop, at recv_from
    recvErrors,   \* number of Err results of recv_from
    fin,          \* a function driven on its own: its name and argument
    fout,         \* what that function returned
    bkLock,       \* holder of the buckets write lock, 0 when free
    loc           \* try_consume of each task: the outcome of its token test

clockVars == <<now, nticks>>
cfgVars == <<rpm, burst, enabled>>
limVars == <<buckets, last_cleanup, lcLock>>
reqVars == <<req, cache, reply, result, backend>>
cacheVars == <<entries, max_size, cache_cleanup, nops, cres, lastSet>>
pureVars == <<fin, fout>>
lockVars == <<bkLock, loc>>
libVars == <<cacheVars, sent, listening, recvErrors, pureVars, lockVars>>

vars == <<now, nticks, rpm, burst, enabled, buckets, last_cleanup, lcLock,
          pc, src, log, req, cache, reply, result, backend,
          entries, max_size, cache_cleanup, nops, cres, lastSet, sent,
          listening, recvErrors, fin, fout, bkLock, loc>>

---------------------------------------------------------------------------
(* TokenBucket *)

NoBucket == [tokens |-> -1, last_refill |-> -1]

\* capacity = burst_size as f64, in token units
Capacity == burst * TokScale

\* TokenBucket::new
NewBucket(t) == [tokens |-> Capacity, last_refill |-> t]

\* refill that forgets the cap at capacity
Refill_NoCap(b, t) ==
    [tokens |-> b.tokens + (t - b.last_refill) * rpm, last_refill |-> t]

\* refill that takes requests_per_minute for the rate per second
Refill_PerSecond(b, t) ==
    [tokens |-> Min(b.tokens + (t - b.last_refill) * rpm * 60, Capacity),
     last_refill |-> t]

\* TokenBucket::refill
Refill(b, t) ==
    [tokens |-> Min(b.tokens + (t - b.last_refill) * rpm, Capacity),
     last_refill |-> t]

\* try_consume that admits on any positive amount of tokens
TryConsume_AnyToken(b, t) ==
    LET r == Refill(b, t)
    IN  IF r.tokens > 0
        THEN [bucket |-> [r EXCEPT !.tokens = @ - TokScale], ok |-> TRUE]
        ELSE [bucket |-> r, ok |-> FALSE]

\* try_consume that tests tokens > 1.0 instead of tokens >= 1.0
TryConsume_Strict(b, t) ==
    LET r == Refill(b, t)
    IN  IF r.tokens > TokScale
        THEN [bucket |-> [r EXCEPT !.tokens = @ - TokScale], ok |-> TRUE]
        ELSE [bucket |-> r, ok |-> FALSE]

\* TokenBucket::try_consume(1.0): the bucket afterwards and the result
TryConsume(b, t) ==
    LET r == Refill(b, t)
    IN  IF r.tokens >= TokScale
        THEN [bucket |-> [r EXCEPT !.tokens = @ - TokScale], ok |-> TRUE]
        ELSE [bucket |-> r, ok |-> FALSE]

\* buckets.entry(addr).or_insert_with(TokenBucket::new)
OrInsert(bs, a, t) == IF bs[a] = NoBucket THEN NewBucket(t) ELSE bs[a]

\* buckets.retain(|_, b| now - b.last_refill < 600 s)
Retain(bs, t) ==
    [a \in Addrs |->
        IF bs[a] # NoBucket /\ t - bs[a].last_refill < Sec(BucketIdleSecs)
        THEN bs[a] ELSE NoBucket]

\* last_cleanup.elapsed() >= cleanup_interval
CleanupDue == now - last_cleanup >= Sec(CleanupIntervalSecs)

---------------------------------------------------------------------------
(* Strings are sequences of one-character strings *)

RECURSIVE JoinWith(_, _)
\* parts.join(sep)
JoinWith(parts, sep) ==
    IF Len(parts) = 0 THEN <<>>
    ELSE IF Len(parts) = 1 THEN parts[1]
    ELSE parts[1] \o <<sep>> \o JoinWith(Tail(parts), sep)

\* Name::to_string of a name decoded from the wire: the labels joined by
\* dots, with the dot of the root at the end (labels here hold no dot and no
\* backslash, which to_string would escape)
NameToString(name) ==
    IF Len(name) = 0 THEN <<".">> ELSE JoinWith(name, ".") \o <<".">>

RECURSIVE TrimEndDots(_)
\* str::trim_end_matches('.')
TrimEndDots(s) ==
    IF Len(s) > 0 /\ s[Len(s)] = "."
    THEN TrimEndDots(SubSeq(s, 1, Len(s) - 1))
    ELSE s

RECURSIVE SplitDots(_)
\* str::split('.'): the empty string gives one empty part
SplitDots(s) ==
    IF \A i \in 1 .. Len(s) : s[i] # "."
    THEN <<s>>
    ELSE LET i == CHOOSE x \in 1 .. Len(s) :
                      s[x] = "." /\ \A y \in 1 .. (x - 1) : s[y] # "."
         IN  <<SubSeq(s, 1, i - 1)>> \o SplitDots(SubSeq(s, i + 1, Len(s)))

\* str::replace(from, to) for single characters
ReplaceChar(s, from, to) ==
    [i \in 1 .. Len(s) |-> IF s[i] = from THEN to ELSE s[i]]

\* extraction that keeps the last label
ExtractQuestion_KeepTld(name) ==
    LET parts == SplitDots(TrimEndDots(NameToString(name)))
    IN  IF Len(parts) < 2
        THEN [ok |-> FALSE, q |-> <<>>]
        ELSE [ok |-> TRUE,
              q |-> ReplaceChar(ReplaceChar(JoinWith(parts, " "),
                                            "-", " "), "_", " ")]

\* DnsHandler::extract_question_from_domain: ok is FALSE for Err
ExtractQuestion(name) ==
    LET parts == SplitDots(TrimEndDots(NameToString(name)))
    IN  IF Len(parts) < 2
        THEN [ok |-> FALSE, q |-> <<>>]
        ELSE [ok |-> TRUE,
              q |-> ReplaceChar(ReplaceChar(
                        JoinWith(SubSeq(parts, 1, Len(parts) - 1), " "),
                        "-", " "), "_", " ")]

---------------------------------------------------------------------------
(* utils::sanitizer::Sanitizer, on strings of ASCII characters (one byte   *)
(* each, so that len() is the number of characters)                        *)

UpperCase == <<"A", "B", "C", "D", "E", "F", "G", "H", "I", "J", "K", "L", "M",
              "N", "O", "P", "Q", "R", "S", "T", "U", "V", "W", "X", "Y", "Z">>
LowerCase == <<"a", "b", "c", "d", "e", "f", "g", "h", "i", "j", "k", "l", "m",
              "n", "o", "p", "q", "r", "s", "t", "u", "v", "w", "x", "y", "z">>
Digits == {"0", "1", "2", "3", "4", "5", "6", "7", "8", "9"}

\* char::to_lowercase on ASCII
LowerChar(c) ==
    IF \E i \in 1 .. 26 : UpperCase[i] = c
    THEN LowerCase[CHOOSE i \in 1 .. 26 : UpperCase[i] = c]
    ELSE c

\* str::to_lowercase
ToLowercase(s) == [i \in 1 .. Len(s) |-> LowerChar(s[i])]

\* the alternatives of the three word patterns of DANGEROUS_PATTERNS, in
\* the order the regex lists them
ScriptWords ==
    << <<"s", "c", "r", "i", "p", "t">>,
       <<"j", "a", "v", "a", "s", "c", "r", "i", "p", "t">>,
       <<"v", "b", "s", "c", "r", "i", "p", "t">>,
       <<"e", "x", "p", "r", "e", "s", "s", "i", "o", "n">>,
       <<"o", "n", "l", "o", "a", "d">>,
       <<"o", "n", "e", "r", "r", "o", "r">>,
       <<"o", "n", "c", "l", "i", "c", "k">> >>
SqlWords ==
    << <<"u", "n", "i", "o", "n">>,
       <<"s", "e", "l", "e", "c", "t">>,
       <<"i", "n", "s", "e", "r", "t">>,
       <<"u", "p", "d", "a", "t", "e">>,
       <<"d", "e", "l", "e", "t", "e">>,
       <<"d", "r", "o", "p">>,
       <<"c", "r", "e", "a", "t", "e">>,
       <<"a", "l", "t", "e", "r">> >>
ShellWords ==
    << <<"e", "v", "a", "l">>,
       <<"e", "x", "e", "c">>,
       <<"s", "y", "s", "t", "e", "m">>,
       <<"s", "h", "e", "l", "l">>,
       <<"c", "m", "d">>,
       <<"p", "o", "w", "e", "r", "s", "h", "e", "l", "l">> >>
\* the character class of the fourth pattern
DangerousChars == {"<", ">", "\"", "'", "&"}

\* ALLOWED_CHARS
AllowedChars ==
    {LowerCase[i] : i \in 1 .. 26} \cup {UpperCase[i] : i \in 1 .. 26}
        \cup Digits
        \cup {" ", ".", ",", "!", "?", "-", "_", "'", "\"", "(", ")", ":", ";"}

\* w is a prefix of s
IsPrefix(w, s) == Len(w) <= Len(s) /\ SubSeq(s, 1, Len(w)) = w

\* the first alternative of words that matches at the start of s, or <<>>
FirstMatch(words, s) ==
    IF \E i \in 1 .. Len(words) : IsPrefix(words[i], s)
    THEN words[CHOOSE i \in 1 .. Len(words) :
                  /\ IsPrefix(words[i], s)
                  /\ \A j \in 1 .. (i - 1) : ~IsPrefix(words[j], s)]
    ELSE <<>>

\* Regex::replace_all(s, "") for an alternation of words, at position i of
\* s: st is the text kept so far and the position the search goes on from;
\* a match at i is skipped, any other character at i is kept
RemoveStep(s, words, i, st) ==
    IF i < st[2] THEN st
    ELSE LET w == FirstMatch(words, SubSeq(s, i, Len(s)))
         IN  IF Len(w) > 0 THEN <<st[1], i + Len(w)>>
             ELSE <<Append(st[1], s[i]), i + 1>>

RECURSIVE RemoveRange(_, _, _, _, _)
\* the scan over positions lo .. hi of s from state st; the range is halved
\* so that the evaluation does not nest once per character
RemoveRange(s, words, lo, hi, st) ==
    IF lo > hi THEN st
    ELSE IF lo = hi THEN RemoveStep(s, words, lo, st)
    ELSE LET mid == (lo + hi) \div 2
         IN  CHOOSE r \in {RemoveRange(s, words, mid + 1, hi, left) :
                              left \in {RemoveRange(s, words, lo, mid, st)}} :
                 TRUE

\* Regex::replace_all(s, "") for an alternation of words: the leftmost
\* match is removed and the search goes on after it
RemoveWords(s, words) == RemoveRange(s, words, 1, Len(s), << <<>>, 1 >>)[1]

\* the characters of s that are in set C, in order
FilterChars(s, C) == SelectSeq(s, LAMBDA c : c \in C)

\* Regex::replace_all(s, "") for a character class
RemoveChars(s, C) == SelectSeq(s, LAMBDA c : c \notin C)

RECURSIVE SplitWhitespace(_)
\* str::split_whitespace: the non-empty runs of non-space characters
SplitWhitespace(s) ==
    IF Len(s) = 0 THEN <<>>
    ELSE IF s[1] = " " THEN SplitWhitespace(Tail(s))
    ELSE LET n == IF \E i \in 1 .. Len(s) : s[i] = " "
                  THEN (CHOOSE i \in 1 .. Len(s) :
                           s[i] = " " /\ \A j \in 1 .. (i - 1) : s[j] # " ") - 1
                  ELSE Len(s)
         IN  <<SubSeq(s, 1, n)>> \o SplitWhitespace(SubSeq(s, n + 1, Len(s)))

\* sanitize_query truncates to this many bytes; is_safe rejects above it
MaxQueryLen == 200
\* is_safe rejects a sanitized query shorter than this
MinQueryLen == 3

\* sanitize_query without the truncation
SanitizeQuery_NoTruncate(query) ==
    JoinWith(SplitWhitespace(
                 FilterChars(
                     RemoveChars(
                         RemoveWords(RemoveWords(RemoveWords(
                             ToLowercase(query), ScriptWords), SqlWords),
                             ShellWords),
                         DangerousChars),
                     AllowedChars)), " ")

\* Sanitizer::sanitize_query
SanitizeQuery(query) ==
    LET low      == ToLowercase(query)
        stripped == RemoveChars(
                        RemoveWords(RemoveWords(RemoveWords(low, ScriptWords),
                                                SqlWords), ShellWords),
                        DangerousChars)
        allowed  == FilterChars(stripped, AllowedChars)
        joined   == JoinWith(SplitWhitespace(allowed), " ")
    IN  IF Len(joined) > MaxQueryLen
        THEN SubSeq(joined, 1, MaxQueryLen)
        ELSE joined

\* some alternative of words occurs in s
HasWord(s, words) ==
    \E i \in 1 .. Len(s) : FirstMatch(words, SubSeq(s, i, Len(s))) # <<>>

\* one of DANGEROUS_PATTERNS matches query; the word patterns are
\* case-insensitive
IsDangerous(query) ==
    \/ HasWord(ToLowercase(query), ScriptWords)
    \/ HasWord(ToLowercase(query), SqlWords)
    \/ HasWord(ToLowercase(query), ShellWords)
    \/ \E i \in 1 .. Len(query) : query[i] \in DangerousChars

\* Sanitizer::is_safe
IsSafe(query) ==
    LET sanitized == SanitizeQuery(query)
    IN  /\ ~(Len(sanitized) < (Len(query) * 3) \div 4)
        /\ ~IsDangerous(query)
        /\ ~(Len(sanitized) < MinQueryLen \/ Len(sanitized) > MaxQueryLen)

---------------------------------------------------------------------------
(* Queries, backend outputs, replies *)

\* what.com
NameWhat == << <<"w", "h", "a", "t">>, <<"c", "o", "m">> >>
\* a-b.com
NameDash == << <<"a", "-", "b">>, <<"c", "o", "m">> >>
\* com
NameCom == << <<"c", "o", "m">> >>
\* cmd.com
NameCmd == << <<"c", "m", "d">>, <<"c", "o", "m">> >>
\* Hi.com
NameHi == << <<"H", "i">>, <<"c", "o", "m">> >>

\* the questions of the queries received: type and name
Queries == {[qtype |-> "TXT", name |-> NameWhat],
            [qtype |-> "TXT", name |-> NameDash],
            [qtype |-> "TXT", name |-> NameCom],
            [qtype |-> "TXT", name |-> NameCmd],
            [qtype |-> "TXT", name |-> NameHi],
            [qtype |-> "A", name |-> NameWhat]}
\* id and RD bit of a query
Headers == {[id |-> 1, rd |-> TRUE], [id |-> 2, rd |-> FALSE]}

NoReq == [id |-> 0, rd |-> FALSE, qtype |-> "none", name |-> <<>>]
NoReply == [rcode |-> "none"]
NoText == [tag |-> "none", len |-> 0, cut |-> FALSE]

\* LlmClient::query: 255 * 16
MaxLength == 255 * 16

\* what the backend may generate: a text named by its tag, len bytes long
Outputs == {[tag |-> "x", len |-> 5, cut |-> FALSE],
            [tag |-> "y", len |-> MaxLength + 1, cut |-> FALSE]}

\* LlmClient::query on a successful generate_response: longer outputs are
\* cut to MaxLength bytes and "..." is appended
Truncate(out) ==
    IF out.len > MaxLength
    THEN [out EXCEPT !.len = MaxLength + 3, !.cut = TRUE]
    ELSE out

\* the handler checks `timestamp.elapsed().as_secs() < 300`
CacheSecs == 300

EmptyCache == [k \in {} |-> NoText]

\* HashMap::insert
Insert(c, k, v) ==
    [x \in DOMAIN c \cup {k} |-> IF x = k THEN v ELSE c[x]]

\* timestamp.elapsed().as_secs() < 300 for the entry of k, if there is one
Fresh(c, k, t) ==
    k \in DOMAIN c /\ (t - c[k].ts) \div TicksPerSec < CacheSecs

\* an error reply that claims recursion is available
ErrorReply_RaSet(rq, code) ==
    [id |-> rq.id, qr |-> TRUE, aa |-> TRUE, rd |-> rq.rd, ra |-> TRUE,
     rcode |-> code, qname |-> rq.name, qtype |-> rq.qtype,
     answer |-> NoText]

\* send_error_response: the message built
ErrorReply(rq, code) ==
    [id |-> rq.id, qr |-> TRUE, aa |-> TRUE, rd |-> rq.rd, ra |-> FALSE,
     rcode |-> code, qname |-> rq.name, qtype |-> rq.qtype,
     answer |-> NoText]

\* send_txt_response: the message built
TxtReply(rq, text) ==
    [id |-> rq.id, qr |-> TRUE, aa |-> TRUE, rd |-> rq.rd, ra |-> FALSE,
     rcode |-> "NoError", qname |-> rq.name, qtype |-> rq.qtype,
     answer |-> text]

\* the question of the query task p handles
Question(p) == ExtractQuestion(req[p].name).q

---------------------------------------------------------------------------
(* TXT packing and the size of a reply on the wire *)

\* chunk_response: a TXT string holds at most this many bytes
ChunkMax == 255
\* DnsServer::run reads datagrams into a buffer of this many bytes
MaxDatagram == 512
\* the TTL of the TXT records of send_txt_response
TxtTtl == 300

\* b"No response"
NoResponse == <<"N", "o", " ", "r", "e", "s", "p", "o", "n", "s", "e">>

\* chunk_response that starts a new chunk only when the current one is
\* longer than 255 bytes
ChunkLoop_Late(s, i, chunks, cur) ==
    IF Len(cur) > ChunkMax THEN <<Append(chunks, cur), <<s[i]>> >>
    ELSE <<chunks, Append(cur, s[i])>>

\* chunk_response, the body of the loop for byte i of s: the chunks pushed
\* and the current chunk afterwards
ChunkLoop(s, i, chunks, cur) ==
    IF Len(cur) >= ChunkMax THEN <<Append(chunks, cur), <<s[i]>> >>
    ELSE <<chunks, Append(cur, s[i])>>

RECURSIVE ChunkRange(_, _, _, _)
\* chunk_response, the loop over bytes lo .. hi of s from state st (the
\* chunks pushed and the current chunk); the range is halved so that the
\* evaluation does not nest once per byte
ChunkRange(s, lo, hi, st) ==
    IF lo > hi THEN st
    ELSE IF lo = hi THEN ChunkLoop(s, lo, st[1], st[2])
    ELSE LET mid == (lo + hi) \div 2
         IN  CHOOSE r \in {ChunkRange(s, mid + 1, hi, left) :
                              left \in {ChunkRange(s, lo, mid, st)}} : TRUE

\* DnsHandler::chunk_response
ChunkResponse(s) ==
    LET st  == ChunkRange(s, 1, Len(s), << <<>>, <<>> >>)
        all == IF Len(st[2]) > 0 THEN Append(st[1], st[2]) ELSE st[1]
    IN  IF Len(all) = 0 THEN <<NoResponse>> ELSE all

\* the lengths of the chunks chunk_response makes of a text of len bytes
ChunkLens(len) ==
    IF len = 0 THEN <<Len(NoResponse)>>
    ELSE [k \in 1 .. ((len + ChunkMax - 1) \div ChunkMax) |->
             IF k * ChunkMax <= len THEN ChunkMax ELSE len - (k - 1) * ChunkMax]

RECURSIVE SumSeq(_)
SumSeq(q) == IF Len(q) = 0 THEN 0 ELSE Head(q) + SumSeq(Tail(q))

\* a name on the wire: each label with its length byte, and the root
NameWireLen(name) == SumSeq([i \in 1 .. Len(name) |-> Len(name[i]) + 1]) + 1

\* response.to_bytes(): 12 bytes of header, the question (name, type,
\* class), and per TXT record a pointer to the name (2), type, class, TTL
\* and RDLENGTH (10), the length byte of the string and the string
WireSize(m) ==
    12 + NameWireLen(m.qname) + 4
       + (IF m.rcode = "NoError"
          THEN SumSeq([k \in 1 .. Len(ChunkLens(m.answer.len)) |->
                          2 + 10 + 1 + ChunkLens(m.answer.len)[k]])
          ELSE 0)

---------------------------------------------------------------------------
(* utils::cache::Cache<String> *)

\* Cache::new: cleanup_interval = Duration::from_secs(300)
CacheCleanupSecs == 300
\* ResponseCache::new_llmdig_cache: max_size
LlmdigMaxSize == 10000

\* calls made on the cache in a behaviour
MaxOps == 4

Keys == {"k1", "k2", "k3"}
Vals == {"v1", "v2"}
\* Option::None of get and remove
NoVal == "none"
\* the max_size values the cache is constructed with
MaxSizes == {1, 2, 3}
\* TTLs of the entries in ticks: half a second and one second
Ttls == {1, Sec(1)}
\* clock steps of the cache
CacheTickSteps == {1, Sec(CacheCleanupSecs)}

NoEntry == [value |-> NoVal, created_at |-> -1, last_accessed |-> -1,
            access_count |-> 0, ttl |-> 0]
NoSet == [value |-> NoVal, t |-> -1, ttl |-> 0]
NoCall == [op |-> "none", key |-> "none", ret |-> NoVal]

\* CacheEntry::new
NewEntry(v, ttl, t) ==
    [value |-> v, created_at |-> t, last_accessed |-> t, access_count |-> 0,
     ttl |-> ttl]

\* expiry counted from the last access instead of from the creation
IsExpired_Sliding(e, t) == t - e.last_accessed > e.ttl

\* CacheEntry::is_expired
IsExpired(e, t) == t - e.created_at > e.ttl

\* CacheEntry::touch
Touch(e, t) == [e EXCEPT !.last_accessed = t, !.access_count = @ + 1]

\* the keys of the map
KeysOf(es) == {k \in Keys : es[k] # NoEntry}
\* entries.len()
Size(es) == Cardinality(KeysOf(es))

\* entries.retain(|_, entry| !entry.is_expired())
RetainLive(es, t) ==
    [k \in Keys |->
        IF es[k] # NoEntry /\ ~IsExpired(es[k], t) THEN es[k] ELSE NoEntry]

\* the map with only the keys of K
Restrict(es, K) == [k \in Keys |-> IF k \in K THEN es[k] ELSE NoEntry]

\* the sets of keys that can be the first n of the entries sorted by
\* last_accessed in ascending order; entries of equal last_accessed come in
\* the order of HashMap::drain, which is arbitrary
FirstByLastAccessed(es, n) ==
    {K \in SUBSET KeysOf(es) :
        /\ Cardinality(K) = Min(n, Size(es))
        /\ \A a \in K, b \in KeysOf(es) \ K :
              es[a].last_accessed <= es[b].last_accessed}

\* eviction that only drops the expired entries
EvictEntries_ExpiredOnly(es, t) == {RetainLive(es, t)}

\* Cache::evict_entries: the maps it can leave
EvictEntries(es, t) ==
    LET live == RetainLive(es, t)
    IN  IF Size(live) >= max_size
        THEN {Restrict(live, K) : K \in FirstByLastAccessed(live, max_size \div 2)}
        ELSE {live}

\* the cache after construction by new_llmdig_cache, never called
InitLib ==
    /\ entries = [k \in Keys |-> NoEntry]
    /\ max_size = LlmdigMaxSize
    /\ cache_cleanup = 0
    /\ nops = 0
    /\ cres = NoCall
    /\ lastSet = [k \in Keys |-> NoSet]

---------------------------------------------------------------------------
(* Ghost functions of the call log *)

RECURSIVE CountOk(_, _, _)
\* number of admitted calls among entries i..j of log l
CountOk(l, i, j) ==
    IF i > j THEN 0
    ELSE (IF l[i].ok THEN 1 ELSE 0) + CountOk(l, i + 1, j)

Admitted(a) == CountOk(log[a], 1, Len(log[a]))

RECURSIVE SumLen(_)
SumLen(S) ==
    IF S = {} THEN 0
    ELSE LET a == CHOOSE x \in S : TRUE
         IN  Len(log[a]) + SumLen(S \ {a})

\* calls completed or in progress
TotalCalls == SumLen(Addrs) + Cardinality({p \in Procs : pc[p] # "idle"})

---------------------------------------------------------------------------
(* The rate limiter driven directly, as the unit tests drive it *)

\* the state after construction, but for the configuration
InitState ==
    /\ now = 0
    /\ nticks = 0
    /\ buckets = [a \in Addrs |-> NoBucket]
    /\ last_cleanup = 0
    /\ lcLock = 0
    /\ pc = [p \in Procs |-> "idle"]
    /\ src = [p \in Procs |-> NoAddr]
    /\ log = [a \in Addrs |-> <<>>]
    /\ req = [p \in Procs |-> NoReq]
    /\ cache = EmptyCache
    /\ reply = [p \in Procs |-> NoReply]
    /\ result = [p \in Procs |-> "none"]
    /\ backend = [p \in Procs |-> "none"]
    /\ sent = {}
    /\ listening = TRUE
    /\ recvErrors = 0
    /\ fin = NoFn
    /\ fout = NoOut
    /\ bkLock = 0
    /\ loc = [p \in Procs |-> FALSE]

InitRL ==
    /\ InitState
    /\ InitLib
    /\ enabled = TRUE
    /\ \E c \in Configs : rpm = c[1] /\ burst = c[2]

\* a task calls allow_request(a); limit bounds the calls of a behaviour
Call(p, a, limit) ==
    /\ pc[p] = "idle"
    /\ TotalCalls < limit
    /\ pc' = [pc EXCEPT ![p] = "cleanup"]
    /\ src' = [src EXCEPT ![p] = a]
    /\ UNCHANGED <<clockVars, cfgVars, libVars, limVars, log, reqVars>>

\* cleanup_if_needed: take the last_cleanup write lock and test the interval;
\* when no sweep is due the lock is released on return
CleanupIfNeeded(p) ==
    /\ pc[p] = "cleanup"
    /\ lcLock = 0
    /\ IF CleanupDue
       THEN /\ lcLock' = p
            /\ pc' = [pc EXCEPT ![p] = "sweep"]
       ELSE /\ lcLock' = lcLock
            /\ pc' = [pc EXCEPT ![p] = "bucket"]
    /\ UNCHANGED <<clockVars, cfgVars, libVars, buckets, last_cleanup, src, log,
                   reqVars>>

\* cleanup_if_needed, the sweep: under both write locks drop the idle
\* buckets, set last_cleanup, release both locks
Sweep(p) ==
    /\ pc[p] = "sweep"
    /\ lcLock = p
    /\ buckets' = Retain(buckets, now)
    /\ last_cleanup' = now
    /\ lcLock' = 0
    /\ pc' = [pc EXCEPT ![p] = "bucket"]
    /\ UNCHANGED <<clockVars, cfgVars, libVars, src, log, reqVars>>

\* allow_request that refills every bucket of the map before consuming
AllowRequest_RefillAll(bs, a, t) ==
    LET r == TryConsume(OrInsert(bs, a, t), t)
    IN  [buckets |-> [x \in Addrs |->
                        IF x = a THEN r.bucket
                        ELSE IF bs[x] = NoBucket THEN NoBucket
                        ELSE Refill(bs[x], t)],
         ok |-> r.ok]

\* allow_request after cleanup_if_needed: under the buckets write lock,
\* entry(addr).or_insert_with(new).try_consume(1.0)
AllowRequest(bs, a, t) ==
    LET r == TryConsume(OrInsert(bs, a, t), t)
    IN  [buckets |-> [bs EXCEPT ![a] = r.bucket], ok |-> r.ok]

\* the rest of allow_request, returning to a caller that is not the handler
Consume(p) ==
    /\ pc[p] = "bucket"
    /\ LET r == AllowRequest(buckets, src[p], now)
       IN  /\ buckets' = r.buckets
           /\ log' = [log EXCEPT ![src[p]] =
                         Append(@, [t |-> now, ok |-> r.ok])]
    /\ pc' = [pc EXCEPT ![p] = "idle"]
    /\ src' = [src EXCEPT ![p] = NoAddr]
    /\ UNCHANGED <<clockVars, cfgVars, libVars, last_cleanup, lcLock, reqVars>>

\* the clock advances
Tick(d) ==
    /\ nticks < MaxTicks
    /\ now' = now + d
    /\ nticks' = nticks + 1
    /\ UNCHANGED <<cfgVars, libVars, limVars, pc, src, log, reqVars>>

NextRL ==
    \/ \E p \in Procs, a \in Addrs : Call(p, a, MaxCalls)
    \/ \E p \in Procs : CleanupIfNeeded(p)
    \/ \E p \in Procs : Sweep(p)
    \/ \E p \in Procs : Consume(p)
    \/ \E d \in TickSteps : Tick(d)

SpecRL == InitRL /\ [][NextRL]_vars

---------------------------------------------------------------------------
(* One caller and one address, called in sequence as in                    *)
(* test_rate_limiter_basic and test_rate_limiter_refill, long enough to    *)
(* drain the bucket twice.                                                 *)

InitSeq ==
    /\ InitState
    /\ InitLib
    /\ enabled = TRUE
    /\ \E c \in Configs \cup WideConfigs : rpm = c[1] /\ burst = c[2]

NextSeq ==
    \/ Call(1, "a1", 2 * burst + SeqSlack)
    \/ CleanupIfNeeded(1)
    \/ Sweep(1)
    \/ Consume(1)
    \/ \E d \in TickSteps : Tick(d)

SpecSeq == InitSeq /\ [][NextSeq]_vars

---------------------------------------------------------------------------
(* allow_request with the buckets lock and the statements of try_consume   *)
(* as separate steps, for callers that run concurrently.  A task waits at  *)
(* `cleanup` for the last_cleanup lock, at `sweep` (holding last_cleanup)  *)
(* and at `bucket` for the buckets lock; last_cleanup is released when     *)
(* cleanup_if_needed returns, buckets when allow_request returns.          *)

\* the limiter configurations and the clock steps of the concurrent callers
LockConfigs == {<<60, 1>>, <<60, 2>>}
LockTickSteps == {1, Sec(CleanupIntervalSecs), Sec(BucketIdleSecs)}

InitLock ==
    /\ InitState
    /\ InitLib
    /\ enabled = TRUE
    /\ \E c \in LockConfigs : rpm = c[1] /\ burst = c[2]

\* what the steps under the buckets lock leave alone
notLock == <<clockVars, cfgVars, cacheVars, sent, listening, recvErrors,
             pureVars, reqVars, last_cleanup, lcLock>>

\* a sweep that returns without releasing the last_cleanup lock
LockedSweep_KeepsLock(p) ==
    /\ pc[p] = "sweep"
    /\ lcLock = p
    /\ bkLock = 0
    /\ buckets' = Retain(buckets, now)
    /\ last_cleanup' = now
    /\ lcLock' = p
    /\ pc' = [pc EXCEPT ![p] = "bucket"]
    /\ UNCHANGED <<clockVars, cfgVars, libVars, src, log, reqVars>>

\* cleanup_if_needed, the sweep: buckets.write().await while holding
\* last_cleanup, then retain, *last_cleanup = now, and both guards dropped
LockedSweep(p) ==
    /\ bkLock = 0
    /\ Sweep(p)

\* a task that enters the critical section without waiting for the lock
LockBuckets_NoWait(p) ==
    /\ pc[p] = "bucket"
    /\ bkLock' = p
    /\ pc' = [pc EXCEPT ![p] = "entry"]
    /\ UNCHANGED <<notLock, buckets, src, log, loc>>

\* allow_request: self.buckets.write().await
LockBuckets(p) ==
    /\ pc[p] = "bucket"
    /\ bkLock = 0
    /\ bkLock' = p
    /\ pc' = [pc EXCEPT ![p] = "entry"]
    /\ UNCHANGED <<notLock, buckets, src, log, loc>>

\* buckets.entry(addr).or_insert_with(TokenBucket::new)
Entry(p) ==
    /\ pc[p] = "entry"
    /\ buckets' = [buckets EXCEPT ![src[p]] = OrInsert(buckets, src[p], now)]
    /\ pc' = [pc EXCEPT ![p] = "refill"]
    /\ UNCHANGED <<notLock, bkLock, src, log, loc>>

\* try_consume: self.refill()
RefillStep(p) ==
    /\ pc[p] = "refill"
    /\ buckets' = [buckets EXCEPT ![src[p]] = Refill(@, now)]
    /\ pc' = [pc EXCEPT ![p] = "test"]
    /\ UNCHANGED <<notLock, bkLock, src, log, loc>>

\* try_consume: if self.tokens >= tokens
TestTokens(p) ==
    /\ pc[p] = "test"
    /\ loc' = [loc EXCEPT ![p] = buckets[src[p]].tokens >= TokScale]
    /\ pc' = [pc EXCEPT ![p] = "take"]
    /\ UNCHANGED <<notLock, bkLock, buckets, src, log>>

\* try_consume: self.tokens -= tokens and true, or false; allow_request
\* returns and the guard of buckets is dropped
Take(p) ==
    /\ pc[p] = "take"
    /\ buckets' = IF loc[p]
                  THEN [buckets EXCEPT ![src[p]].tokens = @ - TokScale]
                  ELSE buckets
    /\ log' = [log EXCEPT ![src[p]] = Append(@, [t |-> now, ok |-> loc[p]])]
    /\ loc' = [loc EXCEPT ![p] = FALSE]
    /\ bkLock' = 0
    /\ pc' = [pc EXCEPT ![p] = "idle"]
    /\ src' = [src EXCEPT ![p] = NoAddr]
    /\ UNCHANGED notLock

\* the steps of task p inside allow_request
LockStep(p) ==
    \/ CleanupIfNeeded(p)
    \/ LockedSweep(p)
    \/ LockBuckets(p)
    \/ Entry(p)
    \/ RefillStep(p)
    \/ TestTokens(p)
    \/ Take(p)

NextLock ==
    \/ \E p \in Procs, a \in Addrs : Call(p, a, MaxCalls)
    \/ \E p \in Procs : CleanupIfNeeded(p)
    \/ \E p \in Procs : LockedSweep(p)
    \/ \E p \in Procs : LockBuckets(p)
    \/ \E p \in Procs : Entry(p)
    \/ \E p \in Procs : RefillStep(p)
    \/ \E p \in Procs : TestTokens(p)
    \/ \E p \in Procs : Take(p)
    \/ \E d \in LockTickSteps : Tick(d)

SpecLock == InitLock /\ [][NextLock]_vars

\* the tokio runtime runs every task that is ready, and the RwLock of tokio
\* hands the lock to its waiters in order: a task that can take a step is
\* not passed over for ever
SpecLockFair ==
    /\ InitLock
    /\ [][NextLock]_vars
    /\ \A p \in Procs : WF_vars(LockStep(p))

---------------------------------------------------------------------------
(* DnsHandler::handle_request, one task per decoded query *)

\* the limiter configuration of the handler under check
HandlerConfigs == {<<60, 1>>}

\* clock steps of the handler: half a second, and the age at which the
\* handler stops using a cache entry
HandlerTickSteps == {1, Sec(CacheSecs)}

Init ==
    /\ InitState
    /\ InitLib
    /\ enabled \in BOOLEAN
    /\ \E c \in HandlerConfigs : rpm = c[1] /\ burst = c[2]

\* a handler that takes queries of every type for TXT queries
Classify_AnyType(rq) ==
    LET e == ExtractQuestion(rq.name)
    IN  IF ~e.ok
        THEN [pc |-> "done", reply |-> NoReply, result |-> "Err"]
        ELSE IF e.q = <<>>
        THEN [pc |-> "done", reply |-> ErrorReply(rq, "FormErr"),
              result |-> "Ok"]
        ELSE [pc |-> "lookup", reply |-> NoReply, result |-> "none"]

\* handle_request from the query-type test to the cache lookup: where the
\* task goes, what it sends and what it returns.  An Err of the extractor
\* leaves handle_request through `?` and nothing is sent.
Classify(rq) ==
    IF rq.qtype # "TXT"
    THEN [pc |-> "done", reply |-> ErrorReply(rq, "NotImp"), result |-> "Ok"]
    ELSE LET e == ExtractQuestion(rq.name)
         IN  IF ~e.ok
             THEN [pc |-> "done", reply |-> NoReply, result |-> "Err"]
             ELSE IF e.q = <<>>
             THEN [pc |-> "done", reply |-> ErrorReply(rq, "FormErr"),
                   result |-> "Ok"]
             ELSE [pc |-> "lookup", reply |-> NoReply, result |-> "none"]

\* a listener that awaits the task of a datagram before it reads the next
Receive_Awaits(p, a, h, q) ==
    LET rq == [id |-> h.id, rd |-> h.rd, qtype |-> q.qtype, name |-> q.name]
        c  == Classify(rq)
    IN  /\ listening
        /\ pc[p] = "idle"
        /\ \A o \in Procs : pc[o] \in {"idle", "done"}
        /\ req' = [req EXCEPT ![p] = rq]
        /\ src' = [src EXCEPT ![p] = a]
        /\ IF enabled
           THEN /\ pc' = [pc EXCEPT ![p] = "cleanup"]
                /\ UNCHANGED <<reply, result>>
           ELSE /\ pc' = [pc EXCEPT ![p] = c.pc]
                /\ reply' = [reply EXCEPT ![p] = c.reply]
                /\ result' = [result EXCEPT ![p] = c.result]
        /\ UNCHANGED <<clockVars, cfgVars, libVars, limVars, log, cache,
                       backend>>

\* a decoded query from address a reaches handle_request; with rate
\* limiting disabled the handler runs on to the cache lookup
Receive(p, a, h, q) ==
    LET rq == [id |-> h.id, rd |-> h.rd, qtype |-> q.qtype, name |-> q.name]
        c  == Classify(rq)
    IN  /\ listening
        /\ pc[p] = "idle"
        /\ req' = [req EXCEPT ![p] = rq]
        /\ src' = [src EXCEPT ![p] = a]
        /\ IF enabled
           THEN /\ pc' = [pc EXCEPT ![p] = "cleanup"]
                /\ UNCHANGED <<reply, result>>
           ELSE /\ pc' = [pc EXCEPT ![p] = c.pc]
                /\ reply' = [reply EXCEPT ![p] = c.reply]
                /\ result' = [result EXCEPT ![p] = c.result]
        /\ UNCHANGED <<clockVars, cfgVars, libVars, limVars, log, cache, backend>>

\* a handler that goes on whatever allow_request returned
Admit_NoLimit(p) ==
    /\ pc[p] = "bucket"
    /\ LET r == AllowRequest(buckets, src[p], now)
           c == Classify(req[p])
       IN  /\ buckets' = r.buckets
           /\ log' = [log EXCEPT ![src[p]] =
                         Append(@, [t |-> now, ok |-> r.ok])]
           /\ pc' = [pc EXCEPT ![p] = c.pc]
           /\ reply' = [reply EXCEPT ![p] = c.reply]
           /\ result' = [result EXCEPT ![p] = c.result]
    /\ UNCHANGED <<clockVars, cfgVars, libVars, last_cleanup, lcLock, src, req, cache,
                   backend>>

\* the rest of allow_request and the handler up to the cache lookup: a
\* refused query is answered ServFail
Admit(p) ==
    /\ pc[p] = "bucket"
    /\ LET r == AllowRequest(buckets, src[p], now)
           c == IF r.ok THEN Classify(req[p])
                ELSE [pc |-> "done",
                      reply |-> ErrorReply(req[p], "ServFail"),
                      result |-> "Ok"]
       IN  /\ buckets' = r.buckets
           /\ log' = [log EXCEPT ![src[p]] =
                         Append(@, [t |-> now, ok |-> r.ok])]
           /\ pc' = [pc EXCEPT ![p] = c.pc]
           /\ reply' = [reply EXCEPT ![p] = c.reply]
           /\ result' = [result EXCEPT ![p] = c.result]
    /\ UNCHANGED <<clockVars, cfgVars, libVars, last_cleanup, lcLock, src, req, cache,
                   backend>>

\* the cache check under the read lock: a fresh entry is sent, otherwise
\* the backend call starts
Lookup(p) ==
    /\ pc[p] = "lookup"
    /\ IF Fresh(cache, Question(p), now)
       THEN /\ reply' = [reply EXCEPT
                           ![p] = TxtReply(req[p], cache[Question(p)].text)]
            /\ result' = [result EXCEPT ![p] = "Ok"]
            /\ pc' = [pc EXCEPT ![p] = "done"]
            /\ UNCHANGED backend
       ELSE /\ backend' = [backend EXCEPT ![p] = "pending"]
            /\ pc' = [pc EXCEPT ![p] = "llm"]
            /\ UNCHANGED <<reply, result>>
    /\ UNCHANGED <<clockVars, cfgVars, libVars, limVars, src, log, req, cache>>

\* llm_client.query returned Ok: insert under the write lock, send the text
LlmOk(p, out) ==
    /\ pc[p] = "llm"
    /\ LET text == Truncate(out)
       IN  /\ cache' = Insert(cache, Question(p), [text |-> text, ts |-> now])
           /\ reply' = [reply EXCEPT ![p] = TxtReply(req[p], text)]
    /\ result' = [result EXCEPT ![p] = "Ok"]
    /\ backend' = [backend EXCEPT ![p] = "ok"]
    /\ pc' = [pc EXCEPT ![p] = "done"]
    /\ UNCHANGED <<clockVars, cfgVars, libVars, limVars, src, log, req>>

\* a handler that caches the failure of the backend
LlmErr_NegCache(p) ==
    /\ pc[p] = "llm"
    /\ cache' = Insert(cache, Question(p), [text |-> NoText, ts |-> now])
    /\ reply' = [reply EXCEPT ![p] = ErrorReply(req[p], "ServFail")]
    /\ result' = [result EXCEPT ![p] = "Ok"]
    /\ backend' = [backend EXCEPT ![p] = "err"]
    /\ pc' = [pc EXCEPT ![p] = "done"]
    /\ UNCHANGED <<clockVars, cfgVars, libVars, limVars, src, log, req>>

\* llm_client.query returned Err (non-2xx, transport error, timeout):
\* ServFail is sent, nothing is cached
LlmErr(p) ==
    /\ pc[p] = "llm"
    /\ reply' = [reply EXCEPT ![p] = ErrorReply(req[p], "ServFail")]
    /\ result' = [result EXCEPT ![p] = "Ok"]
    /\ backend' = [backend EXCEPT ![p] = "err"]
    /\ pc' = [pc EXCEPT ![p] = "done"]
    /\ UNCHANGED <<clockVars, cfgVars, libVars, limVars, src, log, req, cache>>

Next ==
    \/ \E p \in Procs, a \in Addrs, h \in Headers, q \in Queries :
          Receive(p, a, h, q)
    \/ \E p \in Procs : CleanupIfNeeded(p)
    \/ \E p \in Procs : Sweep(p)
    \/ \E p \in Procs : Admit(p)
    \/ \E p \in Procs : Lookup(p)
    \/ \E p \in Procs, out \in Outputs : LlmOk(p, out)
    \/ \E p \in Procs : LlmErr(p)
    \/ \E d \in HandlerTickSteps : Tick(d)

Spec == Init /\ [][Next]_vars

---------------------------------------------------------------------------
(* DnsServer::run with the errors of the listener: datagrams that do not   *)
(* decode and failures of recv_from                                        *)

\* failures of recv_from in a behaviour
MaxRecvErrors == 1

\* the request of a task whose datagram Message::from_bytes rejected
MalformedReq == [id |-> 0, rd |-> FALSE, qtype |-> "malformed", name |-> <<>>]

\* the queries and headers of the datagrams that decode
ListenerQueries == {q \in Queries : q.qtype = "TXT" /\ q.name \in {NameWhat, NameCom}}
ListenerHeaders == {h \in Headers : h.rd}

\* a server that answers FormErr to a datagram it cannot decode
Malformed_FormErr(p, a) ==
    /\ listening
    /\ pc[p] = "idle"
    /\ pc' = [pc EXCEPT ![p] = "done"]
    /\ src' = [src EXCEPT ![p] = a]
    /\ req' = [req EXCEPT ![p] = MalformedReq]
    /\ reply' = [reply EXCEPT ![p] = ErrorReply(MalformedReq, "FormErr")]
    /\ result' = [result EXCEPT ![p] = "Ok"]
    /\ UNCHANGED <<clockVars, cfgVars, libVars, limVars, log, cache, backend>>

\* run and handle_packet on a datagram from a that does not decode: the
\* task is spawned, Message::from_bytes fails, handle_packet returns the Err
\* and the task logs it
Malformed(p, a) ==
    /\ listening
    /\ pc[p] = "idle"
    /\ pc' = [pc EXCEPT ![p] = "done"]
    /\ src' = [src EXCEPT ![p] = a]
    /\ req' = [req EXCEPT ![p] = MalformedReq]
    /\ result' = [result EXCEPT ![p] = "Err"]
    /\ UNCHANGED <<clockVars, cfgVars, libVars, limVars, log, cache, reply,
                   backend>>

\* a listener that returns the error of recv_from
RecvError_Fatal ==
    /\ listening
    /\ recvErrors < MaxRecvErrors
    /\ recvErrors' = recvErrors + 1
    /\ listening' = FALSE
    /\ UNCHANGED <<clockVars, cfgVars, cacheVars, sent, pureVars, lockVars,
                   limVars, pc,
                   src, log, reqVars>>

\* run, the Err arm of recv_from: the error is logged and the loop goes on
RecvError ==
    /\ listening
    /\ recvErrors < MaxRecvErrors
    /\ recvErrors' = recvErrors + 1
    /\ listening' = TRUE
    /\ UNCHANGED <<clockVars, cfgVars, cacheVars, sent, pureVars, lockVars,
                   limVars, pc,
                   src, log, reqVars>>

InitListener ==
    /\ InitState
    /\ InitLib
    /\ enabled \in BOOLEAN
    /\ \E c \in HandlerConfigs : rpm = c[1] /\ burst = c[2]

NextListener ==
    \/ \E p \in Procs, a \in Addrs, h \in ListenerHeaders,
          q \in ListenerQueries : Receive(p, a, h, q)
    \/ \E p \in Procs, a \in Addrs : Malformed(p, a)
    \/ RecvError
    \/ \E p \in Procs : CleanupIfNeeded(p)
    \/ \E p \in Procs : Sweep(p)
    \/ \E p \in Procs : Admit(p)
    \/ \E p \in Procs : Lookup(p)
    \/ \E p \in Procs, out \in Outputs : LlmOk(p, out)
    \/ \E p \in Procs : LlmErr(p)
    \/ \E d \in HandlerTickSteps : Tick(d)

SpecListener == InitListener /\ [][NextListener]_vars

---------------------------------------------------------------------------
(* The cache driven directly, as the unit tests of cache.rs drive it.      *)
(* Every method holds the write lock of entries from its first statement   *)
(* to its return, so each call is one step.                                *)

\* what the calls of the cache leave alone
notCache == <<cfgVars, limVars, pc, src, log, reqVars, sent, listening,
              recvErrors, pureVars, lockVars>>

InitCache ==
    /\ InitState
    /\ enabled = TRUE
    /\ \E c \in HandlerConfigs : rpm = c[1] /\ burst = c[2]
    /\ entries = [k \in Keys |-> NoEntry]
    /\ max_size \in MaxSizes
    /\ cache_cleanup = 0
    /\ nops = 0
    /\ cres = NoCall
    /\ lastSet = [k \in Keys |-> NoSet]

\* set_with_ttl that inserts without making room
SetWithTtl_NoEvict(es, k, v, ttl, t) ==
    {[es EXCEPT ![k] = NewEntry(v, ttl, t)]}

\* Cache::set_with_ttl (and set, with the default TTL): the maps it can
\* leave
SetWithTtl(es, k, v, ttl, t) ==
    LET room == IF Size(es) >= max_size THEN EvictEntries(es, t) ELSE {es}
    IN  {[r EXCEPT ![k] = NewEntry(v, ttl, t)] : r \in room}

\* a get that returns the value of an expired entry
Get_NoExpiry(es, k, t) ==
    IF es[k] = NoEntry THEN [entries |-> es, ret |-> NoVal]
    ELSE [entries |-> [es EXCEPT ![k] = Touch(@, t)], ret |-> es[k].value]

\* Cache::get: the map afterwards and the value returned
Get(es, k, t) ==
    IF es[k] = NoEntry THEN [entries |-> es, ret |-> NoVal]
    ELSE IF IsExpired(es[k], t)
    THEN [entries |-> [es EXCEPT ![k] = NoEntry], ret |-> NoVal]
    ELSE [entries |-> [es EXCEPT ![k] = Touch(@, t)], ret |-> es[k].value]

CacheSet(k, v, ttl) ==
    /\ nops < MaxOps
    /\ entries' \in SetWithTtl(entries, k, v, ttl, now)
    /\ lastSet' = [lastSet EXCEPT ![k] = [value |-> v, t |-> now, ttl |-> ttl]]
    /\ cres' = [op |-> "set", key |-> k, ret |-> NoVal]
    /\ nops' = nops + 1
    /\ UNCHANGED <<clockVars, notCache, max_size, cache_cleanup>>

CacheGet(k) ==
    /\ nops < MaxOps
    /\ LET r == Get(entries, k, now)
       IN  /\ entries' = r.entries
           /\ cres' = [op |-> "get", key |-> k, ret |-> r.ret]
    /\ nops' = nops + 1
    /\ UNCHANGED <<clockVars, notCache, max_size, cache_cleanup, lastSet>>

\* Cache::remove
CacheRemove(k) ==
    /\ nops < MaxOps
    /\ entries' = [entries EXCEPT ![k] = NoEntry]
    /\ cres' = [op |-> "remove", key |-> k, ret |-> entries[k].value]
    /\ nops' = nops + 1
    /\ UNCHANGED <<clockVars, notCache, max_size, cache_cleanup, lastSet>>

\* Cache::cleanup_expired: returns the number of entries removed
CleanupExpired ==
    /\ nops < MaxOps
    /\ entries' = RetainLive(entries, now)
    /\ cres' = [op |-> "cleanup_expired", key |-> "none",
                ret |-> Size(entries) - Size(RetainLive(entries, now))]
    /\ nops' = nops + 1
    /\ UNCHANGED <<clockVars, notCache, max_size, cache_cleanup, lastSet>>

\* Cache::auto_cleanup: cleanup_expired when the interval has elapsed
AutoCleanup ==
    /\ nops < MaxOps
    /\ IF now - cache_cleanup >= Sec(CacheCleanupSecs)
       THEN /\ entries' = RetainLive(entries, now)
            /\ cache_cleanup' = now
       ELSE UNCHANGED <<entries, cache_cleanup>>
    /\ cres' = [op |-> "auto_cleanup", key |-> "none", ret |-> NoVal]
    /\ nops' = nops + 1
    /\ UNCHANGED <<clockVars, notCache, max_size, lastSet>>

NextCache ==
    \/ \E k \in Keys, v \in Vals, ttl \in Ttls : CacheSet(k, v, ttl)
    \/ \E k \in Keys : CacheGet(k)
    \/ \E k \in Keys : CacheRemove(k)
    \/ CleanupExpired
    \/ AutoCleanup
    \/ \E d \in CacheTickSteps : Tick(d)

SpecCache == InitCache /\ [][NextCache]_vars

---------------------------------------------------------------------------
(* LlmClient::query on strings with characters of more than one byte.      *)
(* A string is a sequence of runs: n times the character c, which UTF-8    *)
(* encodes in w bytes.                                                     *)

\* the "..." that query appends
Dots == [c |-> ".", w |-> 1, n |-> 3]

\* str::len(): the length in bytes
ByteLen(runs) == SumSeq([i \in 1 .. Len(runs) |-> runs[i].w * runs[i].n])

RECURSIVE TakeBytes(_, _)
\* &response[..m]: the first m bytes; ok is FALSE when byte m is not on a
\* character boundary, where the slice panics
TakeBytes(runs, m) ==
    IF m = 0 \/ Len(runs) = 0 THEN [ok |-> TRUE, runs |-> <<>>]
    ELSE LET h == Head(runs)
         IN  IF h.w * h.n <= m
             THEN LET r == TakeBytes(Tail(runs), m - h.w * h.n)
                  IN  [ok |-> r.ok, runs |-> <<h>> \o r.runs]
             ELSE IF m % h.w = 0
             THEN [ok |-> TRUE, runs |-> <<[h EXCEPT !.n = m \div h.w]>>]
             ELSE [ok |-> FALSE, runs |-> <<>>]

\* LlmClient::query after generate_response returned Ok(out): ok is FALSE
\* when the task panics
Query(out) ==
    IF ByteLen(out) > MaxLength
    THEN LET t == TakeBytes(out, MaxLength)
         IN  IF t.ok
             THEN [ok |-> TRUE, fn |-> "query", text |-> t.runs \o <<Dots>>]
             ELSE [ok |-> FALSE, fn |-> "query", text |-> <<>>]
    ELSE [ok |-> TRUE, fn |-> "query", text |-> out]

\* n times the character c of w bytes
Run(c, w, n) == [c |-> c, w |-> w, n |-> n]

\* backend outputs: short, of exactly MaxLength bytes, one byte longer, and
\* with characters of 2 and 3 bytes before, on and across byte MaxLength
QueryInputs ==
    { <<Run("a", 1, 5)>>,
      <<Run("a", 1, MaxLength)>>,
      <<Run("a", 1, MaxLength + 1)>>,
      <<Run("e2", 2, MaxLength \div 2)>>,
      <<Run("e2", 2, MaxLength \div 2 + 1)>>,
      <<Run("a", 1, MaxLength - 2), Run("e2", 2, 1), Run("a", 1, 1)>>,
      <<Run("a", 1, MaxLength - 1), Run("e2", 2, 1)>>,
      <<Run("a", 1, 1), Run("e3", 3, MaxLength \div 3)>> }

---------------------------------------------------------------------------
(* The pure functions driven on their own: sanitize_query, chunk_response  *)
(* and the truncation of LlmClient::query                                  *)

\* fragments an input of the sanitizer is made of
MaxFrags == 3

\* n times the character c
Repeat(c, n) == [i \in 1 .. n |-> c]

\* pieces of injection tokens, a token in upper case, characters outside
\* the allowlist, and runs of letters long enough for the truncation
Frags ==
    { <<"s", "c", "r">>, <<"i", "p", "t">>, <<"s", "c", "r", "i", "p", "t">>, <<"D", "R", "O", "P">>,
      <<"#">>, <<"<">>, <<" ">>, <<"a">>,
      Repeat("a", 100), Repeat("a", 99) \o <<" ">> }

RECURSIVE Concats(_)
\* the concatenations of at most n fragments
Concats(n) ==
    IF n = 0 THEN {<<>>}
    ELSE Concats(n - 1) \cup {x \o f : x \in Concats(n - 1), f \in Frags}

SanitizeInputs == Concats(MaxFrags)

\* the byte strings handed to chunk_response: n bytes, byte i being
\* (i + seed) mod 251
Bytes(n, seed) == [i \in 1 .. n |-> (i + seed) % 251]
ChunkInputs ==
    {Bytes(n, seed) :
        n \in {0, 1, 2, ChunkMax - 1, ChunkMax, ChunkMax + 1,
               2 * ChunkMax, 2 * ChunkMax + 1},
        seed \in {0, 100}}

\* the answer section of send_txt_response: one TXT record per chunk
Answers(name, chunks) ==
    [k \in 1 .. Len(chunks) |->
        [name |-> name, ttl |-> TxtTtl, rtype |-> "TXT", rdata |-> chunks[k]]]

InitPure ==
    /\ InitState
    /\ InitLib
    /\ enabled = TRUE
    /\ \E c \in HandlerConfigs : rpm = c[1] /\ burst = c[2]

\* what the pure functions leave alone
notPure == <<clockVars, cfgVars, limVars, pc, src, log, reqVars, cacheVars,
             sent, listening, recvErrors, lockVars>>

\* Sanitizer::sanitize_query(x)
CallSanitize(x) ==
    /\ fin = NoFn
    /\ fin' = [fn |-> "sanitize", arg |-> x]
    /\ fout' = [ok |-> TRUE, fn |-> "sanitize", val |-> SanitizeQuery(x)]
    /\ UNCHANGED notPure

\* send_txt_response(request of name, s): chunk_response and the records
CallChunk(name, s) ==
    /\ fin = NoFn
    /\ fin' = [fn |-> "chunk", arg |-> s, name |-> name]
    /\ fout' = [ok |-> TRUE, fn |-> "chunk", chunks |-> ChunkResponse(s),
                answers |-> Answers(name, ChunkResponse(s))]
    /\ UNCHANGED notPure

\* LlmClient::query with a backend that returns Ok(out)
CallQuery(out) ==
    /\ fin = NoFn
    /\ fin' = [fn |-> "query", arg |-> out]
    /\ fout' = Query(out)
    /\ UNCHANGED notPure

\* the names handed to the extractors: the root, one label, two labels with
\* lower case, upper case, '-', '_' and an injection token, and the names of
\* test_domain_parsing and test_extract_question_from_domain
ExtractNames ==
    { <<>>,
      NameCom,
      << <<"d", "o", "m", "a", "i", "n">> >>,
      NameWhat, NameDash, NameCmd, NameHi,
      << <<"h", "i">>, <<"c", "o", "m">> >>,
      << <<"a", "_", "b">>, <<"c", "o", "m">> >>,
      << <<"s", "i", "n", "g", "l", "e">>, <<"c", "o", "m">> >>,
      << <<"s", "i", "m", "p", "l", "e">>, <<"t", "e", "s", "t">>,
         <<"c", "o", "m">> >>,
      << <<"h", "e", "l", "l", "o", "-", "w", "o", "r", "l", "d">>,
         <<"e", "x", "a", "m", "p", "l", "e">>, <<"c", "o", "m">> >>,
      << <<"w", "h", "a", "t">>, <<"i", "s">>, <<"t", "h", "e">>,
         <<"w", "e", "a", "t", "h", "e", "r">>, <<"c", "o", "m">> >> }

\* Sanitizer::extract_question_from_domain: ok is FALSE for None
SanitizerExtract(domain) ==
    LET parts == SplitDots(TrimEndDots(domain))
        question == ReplaceChar(ReplaceChar(
                        JoinWith(SubSeq(parts, 1, Len(parts) - 1), " "),
                        "-", " "), "_", " ")
    IN  IF Len(parts) < 2 THEN [ok |-> FALSE, q |-> <<>>]
        ELSE IF IsSafe(question) THEN [ok |-> TRUE, q |-> question]
        ELSE [ok |-> FALSE, q |-> <<>>]

\* the longest of the short inputs of is_safe
MaxShort == 5

RECURSIVE Strings(_, _)
\* the strings of at most n characters of set C
Strings(C, n) ==
    IF n = 0 THEN {<<>>}
    ELSE Strings(C, n - 1)
           \cup {Append(x, c) : x \in Strings(C, n - 1), c \in C}

\* the inputs of is_safe: every short string of a letter, a character
\* outside the allowlist and the space; injection tokens; and runs of
\* letters around the lengths 200 and 4/3 * 200
SafeInputs ==
    Strings({"a", "#", " "}, MaxShort)
      \cup { <<"c", "m", "d">>, <<"D", "R", "O", "P">>, <<"<", "a", "b", "c">>,
             <<"c", "m", "d", "a", "b", "c", "d", "e", "f", "g", "h", "i">> }
      \cup { Repeat("a", n) :
               n \in {MaxQueryLen, MaxQueryLen + 1, 267, 268,
                      MaxQueryLen + 100} }

\* DnsHandler::extract_question_from_domain(name)
CallExtract(name) ==
    /\ fin = NoFn
    /\ fin' = [fn |-> "extract", arg |-> name]
    /\ fout' = [ok |-> ExtractQuestion(name).ok, fn |-> "extract",
                q |-> ExtractQuestion(name).q]
    /\ UNCHANGED notPure

\* Sanitizer::extract_question_from_domain of the labels joined by dots
CallSanitizerExtract(name) ==
    /\ fin = NoFn
    /\ fin' = [fn |-> "sanitizer_extract", arg |-> name]
    /\ fout' = [ok |-> SanitizerExtract(JoinWith(name, ".")).ok,
                fn |-> "sanitizer_extract",
                q |-> SanitizerExtract(JoinWith(name, ".")).q]
    /\ UNCHANGED notPure

\* Sanitizer::is_safe(x)
CallIsSafe(x) ==
    /\ fin = NoFn
    /\ fin' = [fn |-> "is_safe", arg |-> x]
    /\ fout' = [ok |-> TRUE, fn |-> "is_safe", val |-> IsSafe(x)]
    /\ UNCHANGED notPure

\* config.llm.backend
BackendTypes == {"OpenAI", "Ollama", "Custom"}
\* config.llm.api_key: None or Some(key)
ApiKeys == {"none", "key"}
\* the configurations a handler is constructed from
LlmConfigs == [backend : BackendTypes, api_key : ApiKeys]

\* the reqwest client of a backend: Client::builder().build(), `built` being
\* whether it succeeds
ClientBuild(built) ==
    IF built THEN [ok |-> TRUE, err |-> "none"]
    ELSE [ok |-> FALSE, err |-> "Http"]

\* a hosted backend constructed without looking at the key
OpenAiBackendNew_NoKeyCheck(cfg, built) == ClientBuild(built)

\* OpenAiBackend::new
OpenAiBackendNew(cfg, built) ==
    IF cfg.api_key = "none"
    THEN [ok |-> FALSE, err |-> "Configuration"]
    ELSE ClientBuild(built)

\* OllamaBackend::new
OllamaBackendNew(cfg, built) == ClientBuild(built)

\* CustomBackend::new
CustomBackendNew(cfg, built) == ClientBuild(built)

\* LlmClient::new
LlmClientNew(cfg, built) ==
    CASE cfg.backend = "OpenAI" -> OpenAiBackendNew(cfg, built)
      [] cfg.backend = "Ollama" -> OllamaBackendNew(cfg, built)
      [] cfg.backend = "Custom" -> CustomBackendNew(cfg, built)

\* DnsHandler::new: the handler is built only when LlmClient::new returned
\* Ok; RateLimiter::new and the empty cache cannot fail
DnsHandlerNew(cfg, built) ==
    LET c == LlmClientNew(cfg, built)
    IN  IF c.ok
        THEN [ok |-> TRUE, err |-> "none", handler |-> cfg.backend]
        ELSE [ok |-> FALSE, err |-> c.err, handler |-> "none"]

\* DnsHandler::new(config)
CallNew(cfg, built) ==
    /\ fin = NoFn
    /\ fin' = [fn |-> "new", arg |-> cfg, built |-> built]
    /\ fout' = [ok |-> DnsHandlerNew(cfg, built).ok, fn |-> "new",
                err |-> DnsHandlerNew(cfg, built).err,
                handler |-> DnsHandlerNew(cfg, built).handler]
    /\ UNCHANGED notPure

NextPure ==
    \/ \E x \in SanitizeInputs : CallSanitize(x)
    \/ \E s \in ChunkInputs : CallChunk(NameWhat, s)
    \/ \E out \in QueryInputs : CallQuery(out)
    \/ \E name \in ExtractNames : CallExtract(name)
    \/ \E name \in ExtractNames : CallSanitizerExtract(name)
    \/ \E x \in SafeInputs : CallIsSafe(x)
    \/ \E cfg \in LlmConfigs, built \in BOOLEAN : CallNew(cfg, built)

SpecPure == InitPure /\ [][NextPure]_vars

---------------------------------------------------------------------------
(* Claims about the handler *)

\* C1: single-flight.  Requests for one fingerprint that is not cached,
\* processed concurrently, share one backend call: no two tasks ever have a
\* backend call for the same question in flight.
C1_SingleFlight ==
    \A p, q \in Procs :
        (p # q /\ backend[p] = "pending" /\ backend[q] = "pending")
            => Question(p) # Question(q)

\* the last call of allow_request for address a returned false
LastRefused(a) == Len(log'[a]) = Len(log[a]) + 1 /\ ~log'[a][Len(log'[a])].ok

\* C2, per step of the handler
C2_Step ==
    \A p \in Procs :
        (pc[p] = "bucket" /\ pc'[p] # "bucket" /\ LastRefused(src[p])) =>
            /\ pc'[p] = "done"
            /\ reply'[p].rcode = "ServFail"
            /\ reply'[p].id = req[p].id
            /\ reply'[p].qname = req[p].name
            /\ reply'[p].qtype = req[p].qtype
            /\ result'[p] = "Ok"
            /\ backend' = backend
            /\ backend[p] = "none"
            /\ cache' = cache

\* C2: when rate limiting is enabled and allow_request returns false, the
\* handler answers ServFail with the id and question of the request, makes
\* no backend call and leaves the cache unchanged.
C2_RateLimited == [][C2_Step]_vars

\* a refused query answered ServFail while the cache holds an earlier answer
C2_Witness ==
    \E p \in Procs :
        /\ enabled /\ pc[p] = "done"
        /\ reply[p].rcode = "ServFail" /\ backend[p] = "none"
        /\ Len(log[src[p]]) = 2 /\ ~log[src[p]][2].ok
        /\ DOMAIN cache # {}

\* the entry of k is at most ttl = 300 s old
WithinTtl(k) == k \in DOMAIN cache /\ now - cache[k].ts <= Sec(CacheSecs)

\* C9, per step of the handler
C9_Step ==
    \A p \in Procs :
        (pc[p] = "lookup" /\ pc'[p] # "lookup") =>
            /\ WithinTtl(Question(p)) =>
                   /\ reply'[p].rcode = "NoError"
                   /\ reply'[p].answer = cache[Question(p)].text
                   /\ backend'[p] = "none"
            /\ backend'[p] = "pending" => ~WithinTtl(Question(p))

\* C9: an admitted TXT query whose fingerprint has a cache entry with
\* now - insertion <= 300 s is answered from the cache with no backend call;
\* the backend is called only on a miss or an expired entry.
C9_CacheHit == [][C9_Step]_vars

\* what the handler does instead: the entry is used while its age in whole
\* seconds is below 300
C9_HitBelowTtl ==
    [][\A p \in Procs :
          (pc[p] = "lookup" /\ pc'[p] # "lookup") =>
              LET k == Question(p)
                  hit == k \in DOMAIN cache /\ now - cache[k].ts < Sec(CacheSecs)
              IN  /\ hit => /\ reply'[p].rcode = "NoError"
                            /\ reply'[p].answer = cache[k].text
                            /\ backend'[p] = "none"
                  /\ backend'[p] = "pending" => ~hit]_vars

\* C10, per step of the handler
C10_Step ==
    \A p \in Procs :
        /\ (backend[p] = "pending" /\ backend'[p] = "err") =>
               /\ reply'[p].rcode = "ServFail"
               /\ reply'[p].id = req[p].id
               /\ reply'[p].qname = req[p].name
               /\ result'[p] = "Ok"
               /\ cache' = cache
        /\ (pc[p] = "lookup" /\ pc'[p] # "lookup"
                /\ Question(p) \notin DOMAIN cache) =>
               backend'[p] = "pending"

\* only answers of the backend are ever in the cache
C10_OnlyAnswersCached ==
    \A k \in DOMAIN cache : \E out \in Outputs : cache[k].text = Truncate(out)

\* C10: no negative caching.  When the backend call fails the handler
\* replies ServFail and returns Ok, the cache is left as it was, and a request
\* that finds no entry for its fingerprint calls the backend again.
C10_NoNegativeCaching == [] C10_OnlyAnswersCached /\ [][C10_Step]_vars

\* a failed request, nothing cached for its question, and another request
\* for the same question at the backend
C10_Witness ==
    \E p, q \in Procs :
        /\ p # q
        /\ backend[p] = "err" /\ reply[p].rcode = "ServFail"
        /\ result[p] = "Ok"
        /\ Question(q) = Question(p) /\ backend[q] = "pending"
        /\ Question(p) \notin DOMAIN cache

---------------------------------------------------------------------------
(* Claims about the rate limiter *)

\* elapsed ticks between entries i and j of the call log of a
Elapsed(a, i, j) == log[a][j].t - log[a][i].t

\* C3: with requests_per_minute = 60 and burst B, of the calls of one
\* address made less than one second after its first call, the first B are
\* admitted and the (B+1)-th is refused.
C3_Burst ==
    rpm = 60 =>
        \A a \in Addrs : \A k \in 1 .. Len(log[a]) :
            Elapsed(a, 1, k) < Sec(1) =>
                /\ k <= burst => log[a][k].ok
                /\ k = burst + 1 => ~log[a][k].ok

\* a burst of two admitted over half a second, then a refusal
C3_Witness ==
    \E a \in Addrs :
        /\ rpm = 60 /\ burst = 2 /\ Len(log[a]) = 3
        /\ Elapsed(a, 1, 3) > 0 /\ Elapsed(a, 1, 3) < Sec(1)
        /\ log[a][2].ok /\ ~log[a][3].ok

\* C4: for every address the number of admitted calls is at most
\* capacity + floor((now - first_seen) * refill_rate).
C4_AdmissionBound ==
    \A a \in Addrs :
        Len(log[a]) > 0 =>
            (Admitted(a) - burst) * TokScale <= (now - log[a][1].t) * rpm

\* the bound of C4 where ten idle minutes refill at least a whole bucket
C4_BoundWhenRefillCoversBurst ==
    burst <= 10 * rpm => C4_AdmissionBound

\* C5, the range: tokens of every bucket lie in [0, capacity]
C5_Range ==
    \A a \in Addrs :
        buckets[a] # NoBucket =>
            buckets[a].tokens >= 0 /\ buckets[a].tokens <= Capacity

\* C5, the steps: the tokens of a bucket decrease only in a call that is
\* admitted, which takes exactly one token from the refilled bucket; a call
\* that is refused takes none.
C5_Step ==
    \A a \in Addrs :
        LET b  == buckets[a]
            c  == buckets'[a]
            called == Len(log'[a]) = Len(log[a]) + 1
            ok == called /\ log'[a][Len(log'[a])].ok
            before == IF b = NoBucket THEN Capacity
                      ELSE Min(b.tokens + (now - b.last_refill) * rpm,
                               Capacity)
        IN  c # NoBucket =>
                /\ (b # NoBucket /\ c.tokens < b.tokens) => ok
                /\ ok => c.tokens = before - TokScale
                /\ (called /\ ~ok) => c.tokens = before /\ before < TokScale

\* C5: in every reachable state each bucket has 0 <= tokens <= capacity, and
\* tokens never decrease except by exactly 1 in an admitted call; a refused
\* call consumes nothing.
C5_TokenBucket == [] C5_Range /\ [][C5_Step]_vars

\* a refused call on a bucket that holds half a token
C5_Witness ==
    \E a \in Addrs :
        /\ Len(log[a]) >= 2 /\ ~log[a][Len(log[a])].ok
        /\ buckets[a] # NoBucket
        /\ buckets[a].tokens > 0 /\ buckets[a].tokens < TokScale

\* entry i of the log of a is a refusal, and the calls i+1 .. j are all made
\* at one instant, after an idle wait
RefusedThenIdle(a, i, j) ==
    /\ ~log[a][i].ok
    /\ \A m \in (i + 1) .. j : log[a][m].t = log[a][j].t

C7_Recovery ==
    \A a \in Addrs : \A i, j \in 1 .. Len(log[a]) :
        (/\ i < j
         /\ ~log[a][i].ok
         /\ CountOk(log[a], i + 1, j - 1) = 0
         /\ Elapsed(a, i, j) * rpm >= TokScale) => log[a][j].ok

\* refused, exactly 60/rpm seconds later admitted
C7_Witness ==
    \E a \in Addrs : \E i \in 1 .. Len(log[a]) - 1 :
        /\ ~log[a][i].ok
        /\ Elapsed(a, i, i + 1) * rpm = TokScale
        /\ log[a][i + 1].ok

\* C8, the steps: the step of a call for one address that consumes leaves
\* the bucket of every other address as it is; the sweep changes no tokens,
\* it only removes buckets not refilled for 600 seconds.
C8_Step ==
    \A p \in Procs :
        /\ (pc[p] = "bucket" /\ pc'[p] # "bucket") =>
               \A b \in Addrs \ {src[p]} : buckets'[b] = buckets[b]
        /\ (pc[p] = "sweep" /\ pc'[p] # "sweep") =>
               \A b \in Addrs :
                   \/ buckets'[b] = buckets[b]
                   \/ /\ buckets'[b] = NoBucket
                      /\ now - buckets[b].last_refill >= Sec(BucketIdleSecs)

\* C8, the outcome: however the calls of two addresses interleave, each gets
\* its own burst (rpm = 60, calls within a second of the address's first)
C8_OwnBurst ==
    rpm = 60 =>
        \A a, b \in Addrs :
            (a # b /\ Len(log[a]) > 0 /\ Len(log[b]) > 0) =>
                \A k \in 1 .. Len(log[a]) :
                    Elapsed(a, 1, k) < Sec(1) => (log[a][k].ok <=> k <= burst)

\* C8: buckets are independent per address.
C8_Independent == [] C8_OwnBurst /\ [][C8_Step]_vars

\* a1 admitted, then a2 admitted, then a1 refused: a2's call between the two
\* calls of a1 took nothing from a1's bucket and a1's took nothing from a2's
C8_Witness ==
    /\ burst = 1 /\ rpm = 60
    /\ Len(log["a1"]) = 2 /\ Len(log["a2"]) = 1
    /\ log["a1"][1].ok /\ log["a2"][1].ok /\ ~log["a1"][2].ok
    /\ log["a1"][2].t > log["a2"][1].t
    /\ buckets["a2"] = [tokens |-> 0, last_refill |-> log["a2"][1].t]

---------------------------------------------------------------------------
(* Claims about the cache *)

\* the step is a call of op on key k
IsCall(op, k) == nops' = nops + 1 /\ cres'.op = op /\ cres'.key = k

\* C11, per step: a get of k after a set of k
C11_Step ==
    \A k \in Keys :
        (IsCall("get", k) /\ lastSet[k] # NoSet) =>
            /\ now - lastSet[k].t > lastSet[k].ttl =>
                  cres'.ret = NoVal /\ entries'[k] = NoEntry
            /\ (now - lastSet[k].t <= lastSet[k].ttl /\ entries[k] # NoEntry) =>
                  cres'.ret = lastSet[k].value

\* C11: cache expiry.  After set(k, v) with TTL tau, a get(k) made more than
\* tau later returns none and leaves no entry for k in the map; a get(k)
\* made up to tau later, the entry not having been removed or evicted in
\* between, returns v.
C11_CacheExpiry == [][C11_Step]_vars

\* a set of k followed, more than its TTL later, by a get of k that returned
\* none and removed the entry
C11_Witness ==
    /\ nops = 2
    /\ cres.op = "get"
    /\ cres.ret = NoVal
    /\ lastSet[cres.key] # NoSet
    /\ now - lastSet[cres.key].t > lastSet[cres.key].ttl
    /\ entries[cres.key] = NoEntry

\* C12, per step: a set of k on a cache at capacity holding no expired entry
C12_Step ==
    \A k \in Keys :
        (/\ IsCall("set", k)
         /\ Size(entries) >= max_size
         /\ RetainLive(entries, now) = entries) =>
            LET kept == {x \in KeysOf(entries) \ {k} : entries'[x] # NoEntry}
                gone == KeysOf(entries) \ (kept \cup {k})
            IN  /\ \A a \in kept : entries'[a] = entries[a]
                /\ \A a \in kept, b \in gone :
                      entries[a].last_accessed >= entries[b].last_accessed
                /\ k \notin KeysOf(entries) =>
                      Cardinality(kept) = Min(max_size \div 2, Size(entries))
                /\ entries'[k] # NoEntry

\* C12: cache eviction keeps the most recently accessed entries.  When set
\* is called on a cache at capacity with no expired entries, the entries
\* evicted are the least recently accessed ones, the max_size/2 most recently
\* accessed entries are retained, and the new entry is inserted.
C12_KeepsMostRecent == [][C12_Step]_vars

\* C13: the cache is bounded.  For every max_size >= 1 and after any
\* interleaving of set, get, remove and cleanup_expired calls the cache holds
\* at most max_size entries.
C13_Bounded == Size(entries) <= max_size

\* three distinct keys set on a cache of max_size 2, which holds 2 entries
C13_Witness ==
    /\ max_size = 2
    /\ nops = 3
    /\ cres.op = "set"
    /\ \A k \in Keys : lastSet[k] # NoSet
    /\ Size(entries) = 2

---------------------------------------------------------------------------
(* Claims about the error paths and the replies of the handler *)

\* task p handled a TXT query for which the extractor fails and which the
\* rate limiter did not refuse
ExtractorFailed(p) ==
    /\ pc[p] = "done"
    /\ req[p].qtype = "TXT"
    /\ ~ExtractQuestion(req[p].name).ok
    /\ reply[p].rcode # "ServFail"

\* C14: when the question extractor fails on an admitted TXT query (fewer
\* than 2 labels, e.g. TXT com) the handler sends a FormErr reply carrying
\* the request's id and question, and makes no backend call.
C14_ExtractorFormErr ==
    \A p \in Procs :
        ExtractorFailed(p) =>
            /\ reply[p] = ErrorReply(req[p], "FormErr")
            /\ backend[p] = "none"

\* task p handles a TXT query whose prompt is_safe rejects
UnsafePrompt(p) ==
    /\ req[p].qtype = "TXT"
    /\ ExtractQuestion(req[p].name).ok
    /\ ~IsSafe(Question(p))

\* C15: a prompt for which is_safe is false is never dispatched to the
\* backend nor inserted in the cache; the handler rejects the request with
\* a FormErr reply.
C15_UnsafeRejected ==
    \A p \in Procs :
        UnsafePrompt(p) =>
            /\ backend[p] = "none"
            /\ Question(p) \notin DOMAIN cache
            /\ (pc[p] = "done" /\ reply[p].rcode # "ServFail") =>
                  reply[p] = ErrorReply(req[p], "FormErr")

\* task p completes in this step
Completes(p) == pc[p] # "done" /\ pc'[p] = "done"

\* what C16 asks of the step that completes a query that is not TXT
NotImpStep(p) ==
    /\ reply'[p] = ErrorReply(req'[p], "NotImp")
    /\ reply'[p].answer = NoText
    /\ backend'[p] = "none"
    /\ cache' = cache

\* C16 as stated: every decoded query that is not a TXT query is answered
\* NotImp with the question echoed and no answer records, with no backend
\* call and no cache change.
C16_NonTxtNotImp ==
    [][\A p \in Procs :
          (Completes(p) /\ req'[p].qtype # "TXT") => NotImpStep(p)]_vars

\* C16, for the queries the rate limiter admits: every decoded query that
\* is not a TXT query and that is admitted (rate limiting disabled, or
\* allow_request returned true) is answered NotImp with the question echoed
\* and no answer records, with no backend call and no cache change.
C16_AdmittedNonTxtNotImp ==
    [][\A p \in Procs :
          (Completes(p) /\ req'[p].qtype # "TXT" /\ ~LastRefused(src'[p]))
              => NotImpStep(p)]_vars

\* an A query that went through the rate limiter and was answered NotImp
C16_Witness ==
    \E p \in Procs :
        /\ pc[p] = "done"
        /\ req[p].qtype = "A"
        /\ enabled
        /\ Len(log[src[p]]) > 0
        /\ reply[p] = ErrorReply(req[p], "NotImp")

\* C17: every reply built by the handler, on success and on every error
\* path and under any interleaving of concurrent requests, has QR=1, AA=1,
\* RA=0, the id and RD bit of the request it answers and that request's
\* question section.
C17_ReplyHeader ==
    \A p \in Procs :
        reply[p] # NoReply =>
            /\ reply[p].qr /\ reply[p].aa /\ ~reply[p].ra
            /\ reply[p].id = req[p].id
            /\ reply[p].rd = req[p].rd
            /\ reply[p].qname = req[p].name
            /\ reply[p].qtype = req[p].qtype

\* two requests with different ids, RD bits and questions, one answered
\* with a text and the other with an error
C17_Witness ==
    \E p, q \in Procs :
        /\ req[p].id # req[q].id
        /\ req[p].name # req[q].name
        /\ reply[p] # NoReply /\ reply[p].rcode = "NoError"
        /\ reply[q] # NoReply /\ reply[q].rcode # "NoError"

\* C18: every decoded query completes with exactly one reply handed to the
\* response handler (NoError, ServFail, NotImp or FormErr) on every path of
\* the handler: no completed request is without a reply.
C18_OneReply ==
    \A p \in Procs :
        pc[p] = "done" =>
            /\ reply[p] # NoReply
            /\ reply[p].rcode \in {"NoError", "ServFail", "NotImp", "FormErr"}

\* C19: every reply the handler produces is transmitted as a datagram on
\* the server's socket to the address the query came from.
C19_Transmitted ==
    \A p \in Procs :
        reply[p] # NoReply => [to |-> src[p], msg |-> reply[p]] \in sent

\* C20: the listener is never blocked by a slow backend.  While any number
\* of earlier requests are waiting on the backend, the listener can receive
\* the next datagram, from any address and with any header, and start its
\* task.
C20_ListenerFree ==
    \A p \in Procs :
        (pc[p] = "idle" /\ \E o \in Procs : backend[o] = "pending") =>
            \A a \in Addrs, h \in Headers :
                ENABLED (\E q \in Queries : Receive(p, a, h, q))

\* a second query was received and taken up to its backend call while the
\* first was still waiting on the backend
C20_Witness ==
    \E p, q \in Procs :
        p # q /\ backend[p] = "pending" /\ backend[q] = "pending"

---------------------------------------------------------------------------
(* Claims about the listener *)

\* an error of one of the four kinds has happened: recv_from failed, a
\* datagram did not decode or the handler returned Err, the backend failed
ErrorSeen ==
    \/ recvErrors > 0
    \/ \E o \in Procs : result[o] = "Err"
    \/ \E o \in Procs : backend[o] = "err"

\* C21: per-request errors (decode failure, handler error, backend failure,
\* socket receive error) are contained.  After any such error the listener
\* is still in its loop and can receive and dispatch the next datagram.
C21_Contained ==
    /\ listening
    /\ \A p \in Procs :
          (pc[p] = "idle" /\ ErrorSeen) =>
              \A a \in Addrs :
                  ENABLED (\E h \in ListenerHeaders, q \in ListenerQueries :
                              Receive(p, a, h, q))

\* a failure of recv_from, a datagram that did not decode and a request
\* being handled
C21_Witness ==
    /\ recvErrors > 0
    /\ \E o, p \in Procs :
          /\ req[o] = MalformedReq /\ result[o] = "Err"
          /\ pc[p] \in {"lookup", "llm"}

\* C22, per step: the datagram of task p does not decode
C22_Step ==
    \A p \in Procs :
        (pc[p] = "idle" /\ req'[p] = MalformedReq) =>
            /\ pc'[p] = "done"
            /\ reply'[p] = NoReply
            /\ backend' = backend
            /\ buckets' = buckets /\ last_cleanup' = last_cleanup
            /\ log' = log
            /\ cache' = cache

\* C22: a datagram that cannot be decoded as a DNS message is dropped.  No
\* reply is produced for it, the handler is not invoked, and the rate
\* limiter and the cache are left as they were.
C22_MalformedDropped == [][C22_Step]_vars

\* a datagram that did not decode, dropped while the limiter has a bucket
\* and the cache an entry
C22_Witness ==
    \E p \in Procs :
        /\ req[p] = MalformedReq
        /\ pc[p] = "done"
        /\ reply[p] = NoReply
        /\ \E a \in Addrs : buckets[a] # NoBucket
        /\ DOMAIN cache # {}

---------------------------------------------------------------------------
(* Claims about the size of replies and of cached texts, and about the     *)
(* prompts of the handler                                                  *)

\* C23: every reply datagram the server produces is at most 512 bytes
\* long, for every backend response and every query name.
C23_ReplyFits ==
    \A p \in Procs : reply[p] # NoReply => WireSize(reply[p]) <= MaxDatagram

\* C26: every response text inserted into the cache and passed to TXT
\* packing is at most 255 * 16 = 4080 bytes long, the ellipsis included, so
\* that it packs into at most 16 TXT strings.
C26_CachedTextBounded ==
    /\ \A k \in DOMAIN cache :
          /\ cache[k].text.len <= MaxLength
          /\ Len(ChunkLens(cache[k].text.len)) <= 16
    /\ \A p \in Procs :
          (reply[p] # NoReply /\ reply[p].rcode = "NoError") =>
              /\ reply[p].answer.len <= MaxLength
              /\ Len(ChunkLens(reply[p].answer.len)) <= 16

\* q is a sanitized question
Sanitized(q) ==
    /\ Len(q) >= MinQueryLen /\ Len(q) <= MaxQueryLen
    /\ ToLowercase(q) = q
    /\ \A i \in 1 .. Len(q) : q[i] \in AllowedChars
    /\ SanitizeQuery(q) = q

\* C30: every prompt the handler dispatches to the backend, and every key
\* it inserts in the cache, is a sanitized question: 3 to 200 bytes long,
\* lowercase and made only of allowlist characters.
C30_SanitizedPrompts ==
    /\ \A p \in Procs : backend[p] # "none" => Sanitized(Question(p))
    /\ \A k \in DOMAIN cache : Sanitized(k)

---------------------------------------------------------------------------
(* Claims about the pure functions *)

RECURSIVE Flatten(_)
\* the chunks concatenated in order
Flatten(chunks) ==
    IF Len(chunks) = 0 THEN <<>> ELSE Head(chunks) \o Flatten(Tail(chunks))

\* C24: TXT packing.  For any answer string s, the chunks of
\* chunk_response concatenated in order are exactly the bytes of s, every
\* chunk is non-empty and at most 255 bytes long, one TXT record with TTL
\* 300 and the name of the query is emitted per chunk, and an empty s
\* gives the single chunk "No response".
C24_TxtPacking ==
    fin.fn = "chunk" =>
        /\ fout.ok
        /\ \A k \in 1 .. Len(fout.chunks) :
              Len(fout.chunks[k]) >= 1 /\ Len(fout.chunks[k]) <= ChunkMax
        /\ Len(fin.arg) > 0 => Flatten(fout.chunks) = fin.arg
        /\ Len(fin.arg) = 0 => fout.chunks = <<NoResponse>>
        /\ Len(fout.answers) = Len(fout.chunks)
        /\ \A k \in 1 .. Len(fout.answers) :
              /\ fout.answers[k].rtype = "TXT"
              /\ fout.answers[k].ttl = TxtTtl
              /\ fout.answers[k].name = fin.name
              /\ fout.answers[k].rdata = fout.chunks[k]

\* a string one byte longer than two full chunks was packed into three
\* chunks of 255, 255 and 1 bytes
C24_Witness ==
    /\ fin.fn = "chunk"
    /\ Len(fin.arg) = 2 * ChunkMax + 1
    /\ Len(fout.chunks) = 3
    /\ Len(fout.chunks[1]) = ChunkMax
    /\ Len(fout.chunks[3]) = 1
    /\ Len(fout.answers) = 3

\* the first byte of run k of runs is byte RunStart(runs, k) + 1
RunStart(runs, k) == ByteLen(SubSeq(runs, 1, k - 1))

\* the bytes of a string of runs: byte j of character c is <<c, j>>
BytesOf(runs) ==
    [i \in 1 .. ByteLen(runs) |->
        LET k == CHOOSE k \in 1 .. Len(runs) :
                     RunStart(runs, k) < i /\ i <= RunStart(runs, k + 1)
        IN  <<runs[k].c, ((i - RunStart(runs, k) - 1) % runs[k].w) + 1>>]

\* C25: response truncation.  LlmClient::query returns the backend output
\* unchanged when it is at most 4080 bytes long, and otherwise its first
\* 4080 bytes followed by "...".
C25_Truncation ==
    fin.fn = "query" =>
        /\ fout.ok
        /\ IF ByteLen(fin.arg) <= MaxLength
           THEN fout.text = fin.arg
           ELSE BytesOf(fout.text) =
                    SubSeq(BytesOf(fin.arg), 1, MaxLength) \o BytesOf(<<Dots>>)

\* C27: sanitizer idempotence.  Sanitizing a sanitized string changes
\* nothing: sanitize_query(sanitize_query(x)) = sanitize_query(x) for
\* every input x.
C27_Idempotent ==
    fin.fn = "sanitize" => SanitizeQuery(fout.val) = fout.val

\* C28: sanitizer bounds.  For every input x, sanitize_query(x) is at most
\* 200 bytes long and every character of it is in the allowlist.
C28_Bounds ==
    fin.fn = "sanitize" =>
        /\ Len(fout.val) <= MaxQueryLen
        /\ \A i \in 1 .. Len(fout.val) : fout.val[i] \in AllowedChars

\* an input of 300 times 'a' came out as 200 characters
C28_Witness ==
    /\ fin.fn = "sanitize"
    /\ fin.arg = Repeat("a", MaxQueryLen + 100)
    /\ fout.val = Repeat("a", MaxQueryLen)

\* C29: for every input, the output of sanitize_query contains none of the
\* injection tokens as a substring and none of the characters < > & " '.
C29_NoTokens ==
    fin.fn = "sanitize" =>
        /\ ~HasWord(fout.val, ScriptWords)
        /\ ~HasWord(fout.val, SqlWords)
        /\ ~HasWord(fout.val, ShellWords)
        /\ \A i \in 1 .. Len(fout.val) : fout.val[i] \notin DangerousChars

---------------------------------------------------------------------------
(* Claims about the extractors and is_safe *)

\* the labels of name but the last, joined by spaces
FrontJoined(name) == JoinWith(SubSeq(name, 1, Len(name) - 1), " ")

\* '-' and '_' replaced by spaces
Cleaned(s) == ReplaceChar(ReplaceChar(s, "-", " "), "_", " ")

\* every character of every label of name is in the allowlist
AllowlistLabels(name) ==
    \A i \in 1 .. Len(name) : \A j \in 1 .. Len(name[i]) :
        name[i][j] \in AllowedChars

\* C31: extractor round-trip.  For a sequence L of at least 2 labels of
\* allowlist characters, the question extracted from join(L, '.') is
\* sanitize(join(L[:-1], ' ')) with '-' and '_' replaced by spaces, so that
\* names differing only in letter case give the same question.
C31_RoundTrip ==
    (/\ fin.fn \in {"extract", "sanitizer_extract"}
     /\ Len(fin.arg) >= 2
     /\ AllowlistLabels(fin.arg)) =>
        /\ fout.ok
        /\ fout.q = SanitizeQuery(Cleaned(FrontJoined(fin.arg)))

C33_ShortNamesRejected ==
    (fin.fn = "extract" /\ Len(fin.arg) <= 2) =>
        (~fout.ok \/ fout.q = <<>>)

\* C34: is_safe(input) is false if an injection pattern matches the input,
\* if the sanitized length is below 3, or if sanitization removed more than
\* 25% of the length of the input, and true otherwise; the 25% test is
\* exact for every length.
C34_IsSafeExact ==
    fin.fn = "is_safe" =>
        LET n == Len(fin.arg)
            m == Len(SanitizeQuery(fin.arg))
        IN  fout.val = ~(\/ IsDangerous(fin.arg)
                         \/ m < MinQueryLen
                         \/ 4 * (n - m) > n)

\* C35: is_safe is false for every input longer than 200 bytes and for
\* every input shorter than 3 bytes.
C35_LengthRejected ==
    (/\ fin.fn = "is_safe"
     /\ (Len(fin.arg) > MaxQueryLen \/ Len(fin.arg) < MinQueryLen)) =>
        fout.val = FALSE

---------------------------------------------------------------------------
(* Claims about construction *)

---------------------------------------------------------------------------
(* Claims about the lifetime of cache entries *)

\* the insertion time, TTL and value of an entry
Inserted(e) == <<e.created_at, e.ttl, e.value>>

\* C37, per step: what a call does to the entries that stay in the map
C37_Step ==
    \A k \in Keys :
        /\ (IsCall("get", k) /\ cres'.ret # NoVal) =>
              /\ entries[k] # NoEntry
              /\ cres'.ret = entries[k].value
              /\ now - entries[k].created_at <= entries[k].ttl
              /\ entries'[k] = [entries[k] EXCEPT
                                   !.last_accessed = now,
                                   !.access_count = @ + 1]
        /\ (IsCall("get", k) /\ entries[k] # NoEntry
              /\ now - entries[k].created_at > entries[k].ttl) =>
              cres'.ret = NoVal /\ entries'[k] = NoEntry
        /\ (entries[k] # NoEntry /\ entries'[k] # NoEntry
              /\ Inserted(entries'[k]) # Inserted(entries[k])) =>
              IsCall("set", k)

\* C37: the TTL of a cache entry is fixed at insertion.  A hit of get
\* updates last_accessed and adds 1 to access_count, and never changes the
\* insertion time, the TTL or the value of the entry, so that no number of
\* hits postpones its expiry; only a new set of the same key does.
C37_TtlFixedAtInsertion == [][C37_Step]_vars

\* an entry was hit twice, the second time later than its insertion, and
\* still carries the time and TTL of its set
C37_Witness ==
    /\ cres.op = "get"
    /\ cres.ret # NoVal
    /\ entries[cres.key].access_count = 2
    /\ entries[cres.key].last_accessed > entries[cres.key].created_at
    /\ entries[cres.key].created_at = lastSet[cres.key].t
    /\ entries[cres.key].ttl = lastSet[cres.key].ttl

---------------------------------------------------------------------------
(* Claims about the cache of the request pipeline *)

\* C38, per step: the lookup of a question whose entry has expired removes
\* the entry
C38_Step ==
    \A p \in Procs :
        (/\ pc[p] = "lookup" /\ pc'[p] # "lookup"
         /\ Question(p) \in DOMAIN cache
         /\ ~Fresh(cache, Question(p), now)) =>
            Question(p) \notin DOMAIN cache'

\* C38: in the request pipeline the response cache stays bounded: it holds
\* at most max_size (10000) entries after any sequence of successful
\* requests, and an expired entry is removed when it is looked up.
C38_PipelineCacheBounded ==
    /\ [](Cardinality(DOMAIN cache) <= max_size)
    /\ [][C38_Step]_vars

---------------------------------------------------------------------------
(* Claims about concurrent callers of the rate limiter *)

\* task p is between buckets.write() and the return of allow_request
InCritical(p) == pc[p] \in {"entry", "refill", "test", "take"}

\* C39: bucket mutation is atomic per address.  Concurrent allow_request
\* calls behave as if run one after another: one task at a time is between
\* or_insert and the return, the outcome of its token test still holds when
\* it takes the token, and while the clock has not advanced (no refill)
\* exactly min(N, B) of the N calls completed for an address were admitted,
\* all of them drawing on the one bucket created by the first.
C39_AtomicPerAddress ==
    /\ \A p \in Procs : InCritical(p) => bkLock = p
    /\ \A p \in Procs :
          pc[p] = "take" => loc[p] = (buckets[src[p]].tokens >= TokScale)
    /\ \A a \in Addrs :
          /\ buckets[a] # NoBucket =>
                buckets[a].tokens >= 0 /\ buckets[a].tokens <= Capacity
          /\ nticks = 0 =>
                /\ Admitted(a) = Min(Len(log[a]), burst)
                /\ buckets[a] = NoBucket => Len(log[a]) = 0
                /\ buckets[a] # NoBucket =>
                      buckets[a].tokens = Capacity - Admitted(a) * TokScale

\* burst 1 and two calls for one address in flight at the same instant:
\* the first was admitted, the second waited for the lock and is refused
C39_Witness ==
    /\ burst = 1
    /\ nticks = 0
    /\ \E a \in Addrs :
          /\ Len(log[a]) = 1
          /\ log[a][1].ok
          /\ \E p \in Procs :
                pc[p] = "take" /\ src[p] = a /\ ~loc[p] /\ bkLock = p

\* the locks are taken in one order: last_cleanup is held only inside
\* cleanup_if_needed, where the task waits for nothing but buckets, and the
\* holder of buckets waits for no lock
LockOrder ==
    \A p \in Procs :
        /\ lcLock = p => pc[p] = "sweep"
        /\ bkLock = p => InCritical(p)

\* some task inside allow_request can take a step
NoDeadlock ==
    (\E p \in Procs : pc[p] # "idle") => ENABLED (\E p \in Procs : LockStep(p))

\* a sweep happens only five minutes or more after the last one, and it
\* removes only buckets not refilled for ten minutes
SweepStep ==
    (last_cleanup' # last_cleanup
       \/ \E a \in Addrs : buckets[a] # NoBucket /\ buckets'[a] = NoBucket) =>
        /\ now - last_cleanup >= Sec(CleanupIntervalSecs)
        /\ last_cleanup' = now
        /\ \A a \in Addrs :
              buckets[a] # NoBucket =>
                 IF now - buckets[a].last_refill >= Sec(BucketIdleSecs)
                 THEN buckets'[a] = NoBucket
                 ELSE buckets'[a] = buckets[a]

\* C40: concurrent allow_request calls, the inline sweep included, never
\* deadlock: the last_cleanup lock and the buckets lock are always taken in
\* the same order and every call eventually returns; the sweep runs only
\* when at least 5 minutes passed since the last one and removes only the
\* buckets unused for 10 minutes.
C40_NoDeadlock ==
    /\ [](LockOrder /\ NoDeadlock)
    /\ [][SweepStep]_vars
    /\ \A p \in Procs : (pc[p] # "idle") ~> (pc[p] = "idle")

\* a task holds last_cleanup and is about to sweep while another task is in
\* its critical section under the buckets lock
C40_Witness ==
    \E p, q \in Procs :
        /\ pc[p] = "sweep" /\ lcLock = p
        /\ bkLock = q /\ InCritical(q)
        /\ \E a \in Addrs :
              buckets[a] # NoBucket
                /\ now - buckets[a].last_refill >= Sec(BucketIdleSecs)

=============================================================================
